---- MODULE Spec2Model ----
(***************************************************************************)
(* State-machine model of bot.py: the user store (users / users.json),     *)
(* the dedup ledger (mark_sent / was_sent), the settings handlers and the  *)
(* notification loop with its await points.                                *)
(*                                                                         *)
(* Representation:                                                         *)
(*   - a date is its day number counted from EpochDate; date.isoformat()   *)
(*     is modelled as the sequence of character codes of "YYYY-MM-DD";     *)
(*   - a datetime is a number of seconds counted from EpochDate 00:00:00;  *)
(*   - an "HH:MM" text / datetime.time is the pair <<hh, mm>>;             *)
(*   - a Python dict is a record [keys |-> insertion order, val |-> map];  *)
(*   - a notification key f"iftar-{mins}" is the pair <<"iftar", mins>>;   *)
(*     the fixed keys carry 0: <<"morning", 0>>, <<"iftar-now", 0>>.       *)
(***************************************************************************)
EXTENDS Integers, Sequences, FiniteSets, TLC

VARIABLES
    users,      \* the module-level dict `users` (uid -> UserSettings)
    disk,       \* the content of USERS_FILE (users.json)
    schedule,   \* the rows of TIME_FILE as load_schedule() parses them
    timefile,   \* the lines of TIME_FILE (time.txt)
    answer,     \* the latest resolve_day_times call: [target, result]
    now,        \* notification_loop's local `now` (read at the top of a tick)
    pc,         \* position of notification_loop
    queue,      \* the users of list(users.items()) not yet finished in this tick
    leads,      \* the lead minutes the running for-loop still has to visit
    preset,     \* the name of the preset captured in the local `preset`
    send,       \* the send_message call in flight: [uid, key]
    resume,     \* where the loop continues after the send and mark_sent
    sendLog,    \* history: <<uid, day, key>> -> number of sends that completed
    lost,       \* history: <<uid, day, key>> -> restarts that hit a completed send before its mark_sent
    failed,     \* history: <<uid, day, key>> -> the `now` of the latest failed send
    marked,     \* history: the <<day, key>> pairs mark_sent was called with (ledger runs)
    repeated,   \* history: the latest mark_sent call repeated an earlier call's arguments
    nevents     \* number of handler calls, failed sends and restarts so far

vars == <<users, disk, schedule, timefile, answer, now, pc, queue, leads, preset, send, resume,
          sendLog, lost, failed, marked, repeated, nevents>>

----------------------------------------------------------------------------
(* CONFIG *)

PresetNames == {"full", "short", "minimal"}

PRESETS ==
    [full    |-> [iftar |-> <<30, 15, 10, 5, 1>>, saharlik |-> <<5>>],
     short   |-> [iftar |-> <<10, 5, 1>>,         saharlik |-> <<5>>],
     minimal |-> [iftar |-> <<5, 1>>,             saharlik |-> <<5>>]]

DEFAULT_PRESET == "full"

NIGHT_MESSAGE_AT == <<22, 0>>

MORNING_MESSAGE_AT == <<8, 30>>

TICK_SECONDS == 20

KEEP_DAYS == 10

SecondsPerMinute == 60

SecondsPerDay == 86400

----------------------------------------------------------------------------
(* Bounds of the model *)

MaxInstants == 5

MaxEvents == 2

MaxLedgerDay == 11

MaxRows == 3

DenseMinutes == 15

Uids == {"1", "2"}

----------------------------------------------------------------------------
(* Dates, times and their text forms *)

EpochDate == <<2024, 2, 24>>

IsLeap(y) == (y % 4 = 0 /\ y % 100 # 0) \/ y % 400 = 0

DaysInMonth(y, m) ==
    IF m = 2 THEN (IF IsLeap(y) THEN 29 ELSE 28)
    ELSE IF m \in {4, 6, 9, 11} THEN 30 ELSE 31

NextDate(dt) ==
    IF dt[3] < DaysInMonth(dt[1], dt[2]) THEN <<dt[1], dt[2], dt[3] + 1>>
    ELSE IF dt[2] < 12 THEN <<dt[1], dt[2] + 1, 1>>
    ELSE <<dt[1] + 1, 1, 1>>

RECURSIVE DateOf(_)
DateOf(n) == IF n = 0 THEN EpochDate ELSE NextDate(DateOf(n - 1))

Chr(d) == 48 + d

\* date.isoformat(): "YYYY-MM-DD", zero padded, as character codes ('-' is 45)
isoformat(day) ==
    LET dt == DateOf(day)
        y  == dt[1]
        m  == dt[2]
        d  == dt[3]
    IN <<Chr(y \div 1000), Chr((y \div 100) % 10), Chr((y \div 10) % 10), Chr(y % 10),
         45, Chr(m \div 10), Chr(m % 10), 45, Chr(d \div 10), Chr(d % 10)>>

\* the days of the runs, from the epoch on, and their ISO texts
ModelDays == 0..(MaxLedgerDay + 1)

IsoTexts == [day \in ModelDays |-> isoformat(day)]

IsoFormat(day) == IsoTexts[day]

\* Python's str comparison: lexicographic on the character codes
RECURSIVE StrLessFrom(_, _, _)
StrLessFrom(a, b, i) ==
    IF i > Len(a) THEN i <= Len(b)
    ELSE IF i > Len(b) THEN FALSE
    ELSE IF a[i] = b[i] THEN StrLessFrom(a, b, i + 1)
    ELSE a[i] < b[i]

StrLess(a, b) == StrLessFrom(a, b, 1)

\* now.date()
DateOfNow(t) == t \div SecondsPerDay

\* now.strftime("%H:%M")
StrfHM(t) ==
    LET tod == t % SecondsPerDay
    IN <<tod \div 3600, (tod % 3600) \div SecondsPerMinute>>

\* combine(day, t) for a datetime.time t = <<hh, mm>>
combine(day, t) == day * SecondsPerDay + t[1] * 3600 + t[2] * SecondsPerMinute

\* parse_time_hhmm succeeds (datetime.time accepts the hour and the minute)
ValidHHMM(t) == t[1] \in 0..23 /\ t[2] \in 0..59

----------------------------------------------------------------------------
(* DATA MODEL and STORAGE *)

NoLedger == [d \in {} |-> <<>>]

UserSettings ==
    [enabled      |-> TRUE,
     preset       |-> DEFAULT_PRESET,
     morning_time |-> MORNING_MESSAGE_AT,
     night_time   |-> NIGHT_MESSAGE_AT,
     sent_keys    |-> NoLedger]

EmptyDict == [keys |-> <<>>, val |-> [u \in {} |-> UserSettings]]

Has(dict, uid) == uid \in DOMAIN dict.val

DictPut(dict, uid, v) ==
    [keys |-> IF Has(dict, uid) THEN dict.keys ELSE Append(dict.keys, uid),
     val  |-> [x \in (DOMAIN dict.val) \cup {uid} |-> IF x = uid THEN v ELSE dict.val[x]]]

\* save_users: every user written with asdict(), in dict order
save_users(us) ==
    [keys |-> us.keys,
     val  |-> [uid \in DOMAIN us.val |->
                  [enabled      |-> us.val[uid].enabled,
                   preset       |-> us.val[uid].preset,
                   morning_time |-> us.val[uid].morning_time,
                   night_time   |-> us.val[uid].night_time,
                   sent_keys    |-> us.val[uid].sent_keys]]]

\* a value of users.json that is not a JSON object (a string, a number, a list)
NotAnObject == [json |-> "string"]

IsObject(udata) == "json" \notin DOMAIN udata

\* load_users: one UserSettings per record of the file, in file order, a missing
\* field taking its default; udata.get on a value that is not an object raises
\* inside the try, and the except clause returns {}
load_users(file) ==
    IF \E uid \in DOMAIN file.val : ~ IsObject(file.val[uid])
    THEN EmptyDict
    ELSE [keys |-> file.keys,
          val  |-> [uid \in DOMAIN file.val |->
                       LET udata == file.val[uid]
                           has(f) == f \in DOMAIN udata
                       IN [enabled      |-> IF has("enabled") THEN udata.enabled ELSE TRUE,
                           preset       |-> IF has("preset") THEN udata.preset
                                            ELSE DEFAULT_PRESET,
                           morning_time |-> IF has("morning_time") THEN udata.morning_time
                                            ELSE MORNING_MESSAGE_AT,
                           night_time   |-> IF has("night_time") THEN udata.night_time
                                            ELSE NIGHT_MESSAGE_AT,
                           sent_keys    |-> IF has("sent_keys") THEN udata.sent_keys
                                            ELSE NoLedger]]]

----------------------------------------------------------------------------
(* BOT LOGIC: get_user, mark_sent, was_sent *)

\* the slip of leaving out the preset repair
get_user_unrepaired(us, file, uid) ==
    LET created == IF Has(us, uid) THEN us ELSE DictPut(us, uid, UserSettings)
        file1   == IF Has(us, uid) THEN file ELSE save_users(created)
    IN [users |-> created, file |-> file1]

\* get_user: [users, file] after the call (creation is saved, the preset repair is not)
get_user(us, file, uid) ==
    LET created == IF Has(us, uid) THEN us ELSE DictPut(us, uid, UserSettings)
        file1   == IF Has(us, uid) THEN file ELSE save_users(created)
        healed  == IF created.val[uid].preset \notin PresetNames
                   THEN [created EXCEPT !.val[uid].preset = DEFAULT_PRESET]
                   ELSE created
    IN [users |-> healed, file |-> file1]

InList(key, list) == \E i \in 1..Len(list) : list[i] = key

\* the first n of sorted(S), the ISO texts in string order
RECURSIVE SortedHead(_, _)
SortedHead(S, n) ==
    IF n = 0 THEN {}
    ELSE LET first == CHOOSE d \in S : \A e \in S \ {d} : StrLess(d, e)
         IN {first} \cup SortedHead(S \ {first}, n - 1)

\* the last n of sorted(S)
RECURSIVE SortedTail(_, _)
SortedTail(S, n) ==
    IF n = 0 THEN {}
    ELSE LET last == CHOOSE d \in S : \A e \in S \ {d} : StrLess(e, d)
         IN {last} \cup SortedTail(S \ {last}, n - 1)

\* the slip all_days[10:] for all_days[:-10]: the first 10 days are kept
OldDaysKeepsFirst(sk) ==
    IF Cardinality(DOMAIN sk) > KEEP_DAYS
    THEN SortedTail(DOMAIN sk, Cardinality(DOMAIN sk) - KEEP_DAYS)
    ELSE {}

\* lines 228-230: when more than 10 days are held, sorted(keys)[:-10], all but
\* the last 10 of the sorted days
OldDays(sk) ==
    IF Cardinality(DOMAIN sk) > KEEP_DAYS
    THEN SortedHead(DOMAIN sk, Cardinality(DOMAIN sk) - KEEP_DAYS)
    ELSE {}

\* the slip of appending the key without looking for it in the day's list
LedgerAddAlways(sk, ds, key) ==
    LET sk1 == [d \in (DOMAIN sk) \cup {ds} |-> IF d \in DOMAIN sk THEN sk[d] ELSE <<>>]
        sk2 == [sk1 EXCEPT ![ds] = Append(@, key)]
    IN [d \in (DOMAIN sk2) \ OldDays(sk2) |-> sk2[d]]

\* the slip of assigning the day's list instead of appending to it
LedgerAddOverwrites(sk, ds, key) ==
    LET sk1 == [d \in (DOMAIN sk) \cup {ds} |-> IF d \in DOMAIN sk THEN sk[d] ELSE <<>>]
    IN IF InList(key, sk1[ds]) THEN sk1
       ELSE LET sk2 == [sk1 EXCEPT ![ds] = <<key>>]
            IN [d \in (DOMAIN sk2) \ OldDays(sk2) |-> sk2[d]]

\* mark_sent, lines 223-231, on one user's sent_keys
LedgerAdd(sk, ds, key) ==
    LET sk1 == [d \in (DOMAIN sk) \cup {ds} |-> IF d \in DOMAIN sk THEN sk[d] ELSE <<>>]
    IN IF InList(key, sk1[ds]) THEN sk1
       ELSE LET sk2 == [sk1 EXCEPT ![ds] = Append(@, key)]
            IN [d \in (DOMAIN sk2) \ OldDays(sk2) |-> sk2[d]]

\* mark_sent: [users, file] after the call
mark_sent(us, file, uid, day, key) ==
    LET g   == get_user(us, file, uid)
        us1 == [g.users EXCEPT !.val[uid].sent_keys = LedgerAdd(@, IsoFormat(day), key)]
    IN [users |-> us1, file |-> save_users(us1)]

\* the slip of comparing the key with the last key of the day's list only
was_sent_last_key(us, file, uid, day, key) ==
    LET u  == get_user(us, file, uid).users.val[uid]
        ds == IsoFormat(day)
    IN IF ds \in DOMAIN u.sent_keys /\ u.sent_keys[ds] # <<>>
       THEN u.sent_keys[ds][Len(u.sent_keys[ds])] = key
       ELSE FALSE

\* was_sent's result (its get_user call is applied by the caller's action)
was_sent(us, file, uid, day, key) ==
    LET u  == get_user(us, file, uid).users.val[uid]
        ds == IsoFormat(day)
    IN IF ds \in DOMAIN u.sent_keys THEN InList(key, u.sent_keys[ds]) ELSE FALSE

----------------------------------------------------------------------------
(* TIME TABLE: the lines of time.txt and load_schedule *)

None == <<>>

\* a line "YYYY-MM-DD;HH:MM;HH:MM": the date text and the two times as written
Row(day_text, sah, ift) == [kind |-> "row", day |-> day_text, sah |-> sah, ift |-> ift]

\* a blank line or a line starting with "#"
CommentLine == [kind |-> "comment"]

\* a line with fewer than three ";"-separated parts
ShortLine == [kind |-> "short"]

\* date.fromisoformat succeeds: the text is the ISO text of a date
IsIsoDate(text) == \E d \in ModelDays : IsoTexts[d] = text

\* date.fromisoformat(text), the inverse of isoformat
fromisoformat(text) == CHOOSE d \in ModelDays : IsoTexts[d] = text

\* lines 118-126 do not skip the line
RowParses(line) ==
    /\ line.kind = "row"
    /\ IsIsoDate(line.day)
    /\ ValidHHMM(line.sah)
    /\ ValidHHMM(line.ift)

\* the slip of keeping the first row of a date (setdefault for assignment)
RECURSIVE load_schedule_first_row(_)
load_schedule_first_row(lines) ==
    IF lines = <<>> THEN [d \in {} |-> <<>>]
    ELSE LET after == load_schedule_first_row(Tail(lines))
             line  == Head(lines)
         IN IF RowParses(line)
            THEN [d \in (DOMAIN after) \cup {fromisoformat(line.day)} |->
                     IF d = fromisoformat(line.day) THEN <<line.sah, line.ift>> ELSE after[d]]
            ELSE after

\* load_schedule: the dict built line by line, a later row replacing an
\* earlier one of the same date
RECURSIVE load_schedule(_)
load_schedule(lines) ==
    IF lines = <<>> THEN [d \in {} |-> <<>>]
    ELSE LET before == load_schedule(SubSeq(lines, 1, Len(lines) - 1))
             line   == lines[Len(lines)]
         IN IF RowParses(line)
            THEN [d \in (DOMAIN before) \cup {fromisoformat(line.day)} |->
                     IF d = fromisoformat(line.day) THEN <<line.sah, line.ift>> ELSE before[d]]
            ELSE before

\* no resolve_day_times call yet
NoAnswer == <<>>

----------------------------------------------------------------------------
(* Ledger runs: mark_sent applied to one user from an empty ledger *)

LedgerUid == "1"

LedgerDays == 0..MaxLedgerDay

KeyMorning == <<"morning", 0>>

KeyNight == <<"night", 0>>

KeyIftarNow == <<"iftar-now", 0>>

\* the days of the ledger runs that are marked with a second key too
TwoKeyDays == {1}

LedgerArgs ==
    {<<d, KeyMorning>> : d \in LedgerDays} \cup {<<d, KeyNight>> : d \in TwoKeyDays}

InitLedger ==
    /\ users = DictPut(EmptyDict, LedgerUid, UserSettings)
    /\ disk = save_users(users)
    /\ schedule = [d \in {} |-> <<>>]
    /\ timefile = <<>>
    /\ answer = NoAnswer
    /\ now = 0
    /\ pc = "start"
    /\ queue = <<>>
    /\ leads = <<>>
    /\ preset = DEFAULT_PRESET
    /\ send = <<>>
    /\ resume = "none"
    /\ sendLog = <<>>
    /\ lost = <<>>
    /\ failed = <<>>
    /\ marked = {}
    /\ repeated = FALSE
    /\ nevents = 0

LedgerMark(day, key) ==
    /\ LET r == mark_sent(users, disk, LedgerUid, day, key)
       IN /\ users' = r.users
          /\ disk' = r.file
    /\ marked' = marked \cup {<<day, key>>}
    /\ repeated' = (<<day, key>> \in marked)
    /\ UNCHANGED <<schedule, timefile, answer, now, pc, queue, leads, preset, send, resume,
                   sendLog, lost, failed, nevents>>

NextLedger == \E a \in LedgerArgs : LedgerMark(a[1], a[2])

SpecLedger == InitLedger /\ [][NextLedger]_vars

\* the ledger of the user of the ledger runs
Ledger == users.val[LedgerUid].sent_keys

MarkedDays == {a[1] : a \in marked}

\* the KEEP_DAYS greatest of a set of days, by calendar order
TopDays(S) == {d \in S : Cardinality({e \in S : e > d}) < KEEP_DAYS}

----------------------------------------------------------------------------
(* TIME TABLE *)

Abs(x) == IF x < 0 THEN 0 - x ELSE x

\* the slip of ranking an earlier date before a later one at equal distance
find_nearest_day_times_earlier(table, target_date) ==
    IF DOMAIN table = {} THEN None
    ELSE LET rank(d) == <<Abs(d - target_date), IF d > target_date THEN 1 ELSE 0, d>>
             less(a, b) == \/ a[1] < b[1]
                           \/ a[1] = b[1] /\ a[2] < b[2]
                           \/ a[1] = b[1] /\ a[2] = b[2] /\ a[3] < b[3]
             nearest_day == CHOOSE d \in DOMAIN table :
                               \A e \in (DOMAIN table) \ {d} : less(rank(d), rank(e))
         IN <<nearest_day, table[nearest_day]>>

\* find_nearest_day_times: min over the dates by (distance, later first, ordinal)
find_nearest_day_times(table, target_date) ==
    IF DOMAIN table = {} THEN None
    ELSE LET rank(d) == <<Abs(d - target_date), IF d > target_date THEN 0 ELSE 1, d>>
             less(a, b) == \/ a[1] < b[1]
                           \/ a[1] = b[1] /\ a[2] < b[2]
                           \/ a[1] = b[1] /\ a[2] = b[2] /\ a[3] < b[3]
             nearest_day == CHOOSE d \in DOMAIN table :
                               \A e \in (DOMAIN table) \ {d} : less(rank(d), rank(e))
         IN <<nearest_day, table[nearest_day]>>

\* the slip of resolving the tick's rows with the nearest-date fallback
load_day_times_nearest(table, target_date) ==
    IF target_date \in DOMAIN table THEN table[target_date]
    ELSE IF DOMAIN table = {} THEN None
    ELSE find_nearest_day_times(table, target_date)[2]

\* load_day_times: the exact row for the date, or None
load_day_times(table, target_date) ==
    IF target_date \in DOMAIN table THEN table[target_date] ELSE None

\* the slip of resolving without the nearest-date fallback
resolve_day_times_exact_only(table, target_date) ==
    LET exact == load_day_times(table, target_date)
    IN IF exact # None THEN <<target_date, exact[1], exact[2], TRUE>> ELSE None

\* resolve_day_times: <<day, sah, ift, is_exact>> or None
resolve_day_times(table, target_date) ==
    LET exact   == load_day_times(table, target_date)
        nearest == find_nearest_day_times(table, target_date)
    IN IF exact # None THEN <<target_date, exact[1], exact[2], TRUE>>
       ELSE IF nearest = None THEN None
       ELSE <<nearest[1], nearest[2][1], nearest[2][2], FALSE>>

----------------------------------------------------------------------------
(* Resolve runs: resolve_day_times called on a time.txt of up to MaxRows lines *)

\* the lines a time.txt of the resolve runs is made of: rows for 03-03 (twice,
\* with different times), 03-04 and 03-07, a row with hour 24, a row whose
\* date is not an ISO date, a comment and a line with too few parts
ResolveLines ==
    {Row(IsoFormat(8), <<4, 50>>, <<18, 20>>),
     Row(IsoFormat(8), <<4, 48>>, <<18, 21>>),
     Row(IsoFormat(9), <<4, 47>>, <<18, 22>>),
     Row(IsoFormat(12), <<4, 42>>, <<18, 25>>),
     Row(IsoFormat(10), <<24, 0>>, <<18, 23>>),
     Row(<<50, 48, 50, 52>>, <<4, 50>>, <<18, 20>>),
     CommentLine,
     ShortLine}

RECURSIVE SeqsUpTo(_, _)
SeqsUpTo(S, n) ==
    IF n = 0 THEN {<<>>}
    ELSE LET shorter == SeqsUpTo(S, n - 1)
         IN shorter \cup {Append(q, x) : q \in shorter, x \in S}

\* the dates resolve_day_times is asked for: 03-02 .. 03-07
QueryDays == 7..12

InitResolve ==
    /\ timefile \in SeqsUpTo(ResolveLines, MaxRows)
    /\ schedule = load_schedule(timefile)
    /\ answer = NoAnswer
    /\ users = EmptyDict
    /\ disk = EmptyDict
    /\ now = 0
    /\ pc = "start"
    /\ queue = <<>>
    /\ leads = <<>>
    /\ preset = DEFAULT_PRESET
    /\ send = <<>>
    /\ resume = "none"
    /\ sendLog = <<>>
    /\ lost = <<>>
    /\ failed = <<>>
    /\ marked = {}
    /\ repeated = FALSE
    /\ nevents = 0

\* resolve_day_times(target_date), reading time.txt
Resolve(target_date) ==
    /\ answer' = [target |-> target_date,
                  result |-> resolve_day_times(load_schedule(timefile), target_date)]
    /\ UNCHANGED <<users, disk, schedule, timefile, now, pc, queue, leads, preset, send,
                   resume, sendLog, lost, failed, marked, repeated, nevents>>

NextResolve == \E d \in QueryDays : Resolve(d)

SpecResolve == InitResolve /\ [][NextResolve]_vars

----------------------------------------------------------------------------
(* SCHEDULER LOOP: the locals of one tick *)

Today == DateOfNow(now)

TodayTimes == load_day_times(schedule, Today)

Cur == Head(queue)

NoSend == <<>>

\* f"iftar-{mins}" and f"saharlik-{mins}"
LeadKey(kind, mins) == <<kind, mins>>

\* the datetime the rule of `key` compares `now` with: sah_dt or ift_dt of
\* today_times, less the lead minutes
TriggerOf(day, key) ==
    LET today_times == load_day_times(schedule, day)
    IN IF key[1] = "saharlik"
       THEN combine(day, today_times[1]) - key[2] * SecondsPerMinute
       ELSE combine(day, today_times[2]) - key[2] * SecondsPerMinute

\* trigger <= now < trigger + timedelta(minutes=1), with an inclusive end as the slip
InWindowInclusive(t, trigger) == trigger <= t /\ t <= trigger + SecondsPerMinute

InWindow(t, trigger) == trigger <= t /\ t < trigger + SecondsPerMinute

Count(bag, x) == IF x \in DOMAIN bag THEN bag[x] ELSE 0

Inc(bag, x) == [y \in (DOMAIN bag) \cup {x} |-> IF y = x THEN Count(bag, x) + 1 ELSE bag[y]]

Put(f, x, v) == [y \in (DOMAIN f) \cup {x} |-> IF y = x THEN v ELSE f[y]]

IdleLocals ==
    /\ queue' = <<>>
    /\ leads' = <<>>
    /\ preset' = DEFAULT_PRESET
    /\ send' = NoSend
    /\ resume' = "none"

\* the sampled wall-clock readings <<day, hh, mm, ss>> of the top of a tick:
\* around 08:30 on day 0 and at 08:30 on day 1, then further ones
ClockSamples ==
    <<<<0, 8, 29, 59>>, <<0, 8, 30, 0>>, <<0, 8, 30, 20>>, <<0, 8, 31, 0>>, <<1, 8, 30, 0>>,
      <<0, 8, 40, 0>>, <<1, 8, 31, 0>>, <<2, 8, 30, 0>>>>

Instants ==
    {ClockSamples[i][1] * SecondsPerDay + ClockSamples[i][2] * 3600
        + ClockSamples[i][3] * SecondsPerMinute + ClockSamples[i][4] :
        i \in 1..MaxInstants}

\* lines 459-469: now = now_local(), the rows are read, list(users.items()) is taken
TickBegin(t) ==
    /\ pc \in {"start", "sleep"}
    /\ t >= now + (IF pc = "sleep" THEN TICK_SECONDS ELSE 0)
    /\ now' = t
    /\ queue' = users.keys
    /\ pc' = "user"
    /\ UNCHANGED <<users, disk, schedule, timefile, answer, leads, preset, send, resume,
                   sendLog, lost, failed, marked, repeated, nevents>>

\* lines 461-466 raising at the top of a tick (the read of time.txt in
\* load_schedule, line 114): lines 541-546, the except clause takes it before
\* any user is looked at and the loop sleeps
TickBeginFails(t) ==
    /\ pc \in {"start", "sleep"}
    /\ nevents < MaxEvents
    /\ t >= now + (IF pc = "sleep" THEN TICK_SECONDS ELSE 0)
    /\ now' = t
    /\ pc' = "sleep"
    /\ nevents' = nevents + 1
    /\ UNCHANGED <<users, disk, schedule, timefile, answer, queue, leads, preset, send, resume,
                   sendLog, lost, failed, marked, repeated>>

\* lines 469-472: the next user of the list, skipped when disabled; after the
\* last one the tick is over and the loop sleeps (line 546)
LoopUser ==
    /\ pc = "user"
    /\ IF queue = <<>>
       THEN /\ pc' = "sleep"
            /\ IdleLocals
       ELSE IF ~ users.val[Cur].enabled
       THEN /\ queue' = Tail(queue)
            /\ pc' = "user"
            /\ UNCHANGED <<leads, preset, send, resume>>
       ELSE /\ pc' = "morning"
            /\ UNCHANGED <<queue, leads, preset, send, resume>>
    /\ UNCHANGED <<users, disk, schedule, timefile, answer, now,
                   sendLog, lost, failed, marked, repeated, nevents>>

\* lines 476-481 and 485-491: a digest is due when now's HH:MM is the user's time
\* and the key is not in today's ledger; was_sent is only called on a time match
CheckDigest(at, key, digest_time, next) ==
    /\ pc = at
    /\ IF StrfHM(now) = digest_time
       THEN LET g == get_user(users, disk, Cur)
            IN /\ users' = g.users
               /\ disk' = g.file
               /\ IF ~ was_sent(users, disk, Cur, Today, key)
                  THEN /\ send' = [uid |-> Cur, key |-> key]
                       /\ resume' = next
                       /\ pc' = "send"
                  ELSE /\ pc' = next
                       /\ UNCHANGED <<send, resume>>
       ELSE /\ pc' = next
            /\ UNCHANGED <<users, disk, send, resume>>
    /\ UNCHANGED <<schedule, timefile, answer, now, queue, leads, preset,
                   sendLog, lost, failed, marked, repeated, nevents>>

CheckMorning == CheckDigest("morning", KeyMorning, users.val[Cur].morning_time, "night")

CheckNight == CheckDigest("night", KeyNight, users.val[Cur].night_time, "gate")

\* lines 495-501: without a row for today the user is done; otherwise the preset
\* is looked up once and the iftar loop starts
Gate ==
    /\ pc = "gate"
    /\ IF TodayTimes = None
       THEN /\ queue' = Tail(queue)
            /\ pc' = "user"
            /\ UNCHANGED <<leads, preset>>
       ELSE /\ preset' = (IF users.val[Cur].preset \in PresetNames
                          THEN users.val[Cur].preset ELSE DEFAULT_PRESET)
            /\ leads' = PRESETS[preset'].iftar
            /\ pc' = "iftar"
            /\ UNCHANGED queue
    /\ UNCHANGED <<users, disk, schedule, timefile, answer, now, send, resume,
                   sendLog, lost, failed, marked, repeated, nevents>>

\* lines 504-515 and 528-539: one iteration of a lead loop
CheckLead(at, kind, after, after_leads) ==
    /\ pc = at
    /\ IF leads = <<>>
       THEN /\ pc' = after
            /\ leads' = after_leads
            /\ UNCHANGED <<users, disk, send, resume>>
       ELSE LET key == LeadKey(kind, Head(leads))
                g   == get_user(users, disk, Cur)
            IN /\ users' = g.users
               /\ disk' = g.file
               /\ leads' = Tail(leads)
               /\ IF ~ was_sent(users, disk, Cur, Today, key)
                     /\ InWindow(now, TriggerOf(Today, key))
                  THEN /\ send' = [uid |-> Cur, key |-> key]
                       /\ resume' = at
                       /\ pc' = "send"
                  ELSE /\ pc' = at
                       /\ UNCHANGED <<send, resume>>
    /\ UNCHANGED <<schedule, timefile, answer, now, preset,
                   sendLog, lost, failed, marked, repeated, nevents>>

CheckIftarLead ==
    /\ CheckLead("iftar", "iftar", "iftar_now", <<>>)
    /\ UNCHANGED queue

\* lines 518-525: the zero-lead notification, then the saharlik loop starts
CheckIftarNow ==
    /\ pc = "iftar_now"
    /\ LET g == get_user(users, disk, Cur)
       IN /\ users' = g.users
          /\ disk' = g.file
          /\ leads' = PRESETS[preset].saharlik
          /\ IF ~ was_sent(users, disk, Cur, Today, KeyIftarNow)
                /\ InWindow(now, TriggerOf(Today, KeyIftarNow))
             THEN /\ send' = [uid |-> Cur, key |-> KeyIftarNow]
                  /\ resume' = "saharlik"
                  /\ pc' = "send"
             ELSE /\ pc' = "saharlik"
                  /\ UNCHANGED <<send, resume>>
    /\ UNCHANGED <<schedule, timefile, answer, now, queue, preset,
                   sendLog, lost, failed, marked, repeated, nevents>>

\* after the saharlik loop the for-loop over the users goes on
CheckSaharlikLead ==
    /\ CheckLead("saharlik", "saharlik", "user", <<>>)
    /\ queue' = IF leads = <<>> THEN Tail(queue) ELSE queue

\* await bot.send_message(...) returns
SendOk ==
    /\ pc = "send"
    /\ pc' = "mark"
    /\ sendLog' = Inc(sendLog, <<send.uid, Today, send.key>>)
    /\ UNCHANGED <<users, disk, schedule, timefile, answer, now, queue, leads, preset, send, resume,
                   lost, failed, marked, repeated, nevents>>

\* the slip of marking the key under the day after the tick's date
MarkSentNextDay ==
    /\ pc = "mark"
    /\ LET r == mark_sent(users, disk, send.uid, Today + 1, send.key)
       IN /\ users' = r.users
          /\ disk' = r.file
    /\ pc' = resume
    /\ send' = NoSend
    /\ resume' = "none"
    /\ UNCHANGED <<schedule, timefile, answer, now, queue, leads, preset,
                   sendLog, lost, failed, marked, repeated, nevents>>

\* the mark_sent call that follows a send
MarkSent ==
    /\ pc = "mark"
    /\ LET r == mark_sent(users, disk, send.uid, Today, send.key)
       IN /\ users' = r.users
          /\ disk' = r.file
    /\ pc' = resume
    /\ send' = NoSend
    /\ resume' = "none"
    /\ UNCHANGED <<schedule, timefile, answer, now, queue, leads, preset,
                   sendLog, lost, failed, marked, repeated, nevents>>

\* the slip of writing users.json before the key is appended: a failed write
\* leaves the ledger in memory without the key
MarkSentSaveFailsBeforeAppend ==
    /\ pc = "mark"
    /\ disk' \in {disk, EmptyDict}
    /\ pc' = "sleep"
    /\ IdleLocals
    /\ UNCHANGED <<users, schedule, timefile, answer, now,
                   sendLog, lost, failed, marked, repeated, nevents>>

\* mark_sent after a send, its save_users raising (line 232): the key is in the
\* ledger in memory, the exception goes to the except clause of the tick
\* (lines 541-546); write_text has either not touched users.json or has
\* truncated it, and a truncated file loads as {}
MarkSentSaveFails ==
    /\ pc = "mark"
    /\ users' = mark_sent(users, disk, send.uid, Today, send.key).users
    /\ disk' \in {disk, EmptyDict}
    /\ pc' = "sleep"
    /\ IdleLocals
    /\ UNCHANGED <<schedule, timefile, answer, now,
                   sendLog, lost, failed, marked, repeated, nevents>>

\* the slip of a tick without the except clause: the exception of the send
\* leaves notification_loop and the task is over
SendFailStops ==
    /\ pc = "send"
    /\ nevents < MaxEvents
    /\ pc' = "stopped"
    /\ IdleLocals
    /\ failed' = Put(failed, <<send.uid, Today, send.key>>, now)
    /\ nevents' = nevents + 1
    /\ UNCHANGED <<users, disk, schedule, timefile, answer, now, sendLog, lost, marked, repeated>>

\* the slip of marking the key although the send raised
SendFailMarks ==
    /\ pc = "send"
    /\ nevents < MaxEvents
    /\ pc' = "sleep"
    /\ IdleLocals
    /\ LET r == mark_sent(users, disk, send.uid, Today, send.key)
       IN /\ users' = r.users
          /\ disk' = r.file
    /\ failed' = Put(failed, <<send.uid, Today, send.key>>, now)
    /\ nevents' = nevents + 1
    /\ UNCHANGED <<schedule, timefile, answer, now, sendLog, lost, marked, repeated>>

\* await bot.send_message(...) raises: lines 541-546, the except clause around
\* the whole tick takes it and the loop sleeps
SendFail ==
    /\ pc = "send"
    /\ nevents < MaxEvents
    /\ pc' = "sleep"
    /\ IdleLocals
    /\ failed' = Put(failed, <<send.uid, Today, send.key>>, now)
    /\ nevents' = nevents + 1
    /\ UNCHANGED <<users, disk, schedule, timefile, answer, now, sendLog, lost, marked, repeated>>

----------------------------------------------------------------------------
(* HANDLERS: each runs to its first await while the loop awaits a send or sleeps. *)
(* main() creates the loop's task before polling starts, so the first tick of a   *)
(* process begins before any handler runs.                                        *)

AwaitPoints == {"sleep", "send"}

HandlerRuns ==
    /\ pc \in AwaitPoints
    /\ nevents < MaxEvents
    /\ nevents' = nevents + 1
    /\ UNCHANGED <<schedule, timefile, answer, now, pc, queue, leads, preset, send, resume,
                   sendLog, lost, failed, marked, repeated>>

\* cmd_start (and h_settings): get_user(uid)
cmd_start(uid) ==
    /\ HandlerRuns
    /\ LET g == get_user(users, disk, uid)
       IN /\ users' = g.users
          /\ disk' = g.file

\* the slip of leaving out save_users after the flag is flipped
cb_settings_toggle_unsaved(uid) ==
    /\ HandlerRuns
    /\ LET g   == get_user(users, disk, uid)
           us1 == [g.users EXCEPT !.val[uid].enabled = ~ @]
       IN /\ users' = us1
          /\ disk' = g.file

\* the slip of putting a new UserSettings with the flag flipped in the map
cb_settings_toggle_new_record(uid) ==
    /\ HandlerRuns
    /\ LET g   == get_user(users, disk, uid)
           us1 == [g.users EXCEPT !.val[uid] =
                      [UserSettings EXCEPT !.enabled = ~ g.users.val[uid].enabled]]
       IN /\ users' = us1
          /\ disk' = save_users(us1)

\* cb_settings, "set:toggle"
cb_settings_toggle(uid) ==
    /\ HandlerRuns
    /\ LET g   == get_user(users, disk, uid)
           us1 == [g.users EXCEPT !.val[uid].enabled = ~ @]
       IN /\ users' = us1
          /\ disk' = save_users(us1)

\* the slip of storing the name without looking it up in PRESETS
cb_settings_preset_unchecked(uid, name) ==
    /\ HandlerRuns
    /\ LET g   == get_user(users, disk, uid)
           us1 == [g.users EXCEPT !.val[uid].preset = name]
       IN /\ users' = us1
          /\ disk' = save_users(us1)

\* cb_settings, "set:preset:<name>"
cb_settings_preset(uid, name) ==
    /\ HandlerRuns
    /\ LET g   == get_user(users, disk, uid)
           us1 == [g.users EXCEPT !.val[uid].preset = name]
       IN IF name \in PresetNames
          THEN /\ users' = us1
               /\ disk' = save_users(us1)
          ELSE /\ users' = g.users
               /\ disk' = g.file

\* h_set_times_text, "утро HH:MM" / "ночь HH:MM"
h_set_times_text(uid, kind, hhmm) ==
    /\ HandlerRuns
    /\ LET g   == get_user(users, disk, uid)
           us1 == IF kind = "morning"
                  THEN [g.users EXCEPT !.val[uid].morning_time = hhmm]
                  ELSE [g.users EXCEPT !.val[uid].night_time = hhmm]
       IN IF ValidHHMM(hhmm)
          THEN /\ users' = us1
               /\ disk' = save_users(us1)
          ELSE /\ users' = g.users
               /\ disk' = g.file

\* the process is killed and started again: users = load_users() (line 209) and
\* notification_loop starts with a tick
Restart ==
    /\ pc \in {"start", "sleep", "send", "mark"}
    /\ nevents < MaxEvents
    /\ nevents' = nevents + 1
    /\ users' = load_users(disk)
    /\ pc' = "start"
    /\ IdleLocals
    /\ lost' = IF pc = "mark" THEN Inc(lost, <<send.uid, Today, send.key>>) ELSE lost
    /\ UNCHANGED <<disk, schedule, timefile, answer, now, sendLog, failed, marked, repeated>>

----------------------------------------------------------------------------
(* The bot: one tick loop, the handlers, restarts *)

SahTime == <<8, 36>>

IftTime == <<8, 40>>

\* time.txt holds a row for day 0 only: the later days have no exact row, and
\* day 0 is their nearest date
Tables == {[d \in {0} |-> <<SahTime, IftTime>>]}

\* the time.txt of the tables
TimeFiles == {<<CommentLine, Row(IsoFormat(0), SahTime, IftTime)>>}

PresetChoices == {"minimal", "bogus"}

TimeChoices == {<<8, 31>>, <<24, 0>>}

\* users.json at the start: user "1" with the defaults
InitFiles == {save_users(DictPut(EmptyDict, "1", UserSettings))}

Init ==
    /\ disk \in InitFiles
    /\ users = load_users(disk)
    /\ schedule \in Tables
    /\ timefile \in {f \in TimeFiles : load_schedule(f) = schedule}
    /\ answer = NoAnswer
    /\ now = 0
    /\ pc = "start"
    /\ queue = <<>>
    /\ leads = <<>>
    /\ preset = DEFAULT_PRESET
    /\ send = NoSend
    /\ resume = "none"
    /\ sendLog = <<>>
    /\ lost = <<>>
    /\ failed = <<>>
    /\ marked = {}
    /\ repeated = FALSE
    /\ nevents = 0

Tick ==
    \/ LoopUser
    \/ CheckMorning
    \/ CheckNight
    \/ Gate
    \/ CheckIftarLead
    \/ CheckIftarNow
    \/ CheckSaharlikLead
    \/ SendOk
    \/ MarkSent

Next ==
    \/ \E t \in Instants : TickBegin(t)
    \/ Tick
    \/ SendFail
    \/ \E uid \in Uids : cmd_start(uid)
    \/ \E uid \in Uids : cb_settings_toggle(uid)
    \/ \E uid \in Uids, name \in PresetChoices : cb_settings_preset(uid, name)
    \/ \E uid \in Uids, kind \in {"morning", "night"}, hhmm \in TimeChoices :
          h_set_times_text(uid, kind, hhmm)
    \/ Restart

Spec == Init /\ [][Next]_vars

----------------------------------------------------------------------------
(* Repair runs: the bot started on a users.json whose user "1" has a preset
   name that PRESETS does not know *)

UnknownPreset == "bogus"

RepairFiles ==
    {save_users(DictPut(EmptyDict, "1", [UserSettings EXCEPT !.preset = UnknownPreset]))}

InitRepair ==
    /\ disk \in RepairFiles
    /\ users = load_users(disk)
    /\ schedule \in Tables
    /\ timefile \in {f \in TimeFiles : load_schedule(f) = schedule}
    /\ answer = NoAnswer
    /\ now = 0
    /\ pc = "start"
    /\ queue = <<>>
    /\ leads = <<>>
    /\ preset = DEFAULT_PRESET
    /\ send = NoSend
    /\ resume = "none"
    /\ sendLog = <<>>
    /\ lost = <<>>
    /\ failed = <<>>
    /\ marked = {}
    /\ repeated = FALSE
    /\ nevents = 0

SpecRepair == InitRepair /\ [][Next]_vars

----------------------------------------------------------------------------
(* Reject runs: the tick loop, and handlers called with invalid values only,
   on a users.json with the defaults or with an unknown preset name *)

InvalidPresets == {UnknownPreset, "FULL"}

InvalidTimes == {<<24, 0>>, <<8, 60>>}

InitReject ==
    /\ disk \in InitFiles \cup RepairFiles
    /\ users = load_users(disk)
    /\ schedule \in Tables
    /\ timefile \in {f \in TimeFiles : load_schedule(f) = schedule}
    /\ answer = NoAnswer
    /\ now = 0
    /\ pc = "start"
    /\ queue = <<>>
    /\ leads = <<>>
    /\ preset = DEFAULT_PRESET
    /\ send = NoSend
    /\ resume = "none"
    /\ sendLog = <<>>
    /\ lost = <<>>
    /\ failed = <<>>
    /\ marked = {}
    /\ repeated = FALSE
    /\ nevents = 0

NextReject ==
    \/ \E t \in Instants : TickBegin(t)
    \/ Tick
    \/ \E uid \in Uids, name \in InvalidPresets : cb_settings_preset(uid, name)
    \/ \E uid \in Uids, kind \in {"morning", "night"}, hhmm \in InvalidTimes :
          h_set_times_text(uid, kind, hhmm)

SpecReject == InitReject /\ [][NextReject]_vars

----------------------------------------------------------------------------
(* Load runs: the process starts on a users.json of three records *)

LoadUids == <<"1", "2", "3">>

\* the records of the load runs: two complete ones (one with a ledger and
\* changed settings), one without the time fields, an empty object, and a value
\* that is not an object
LoadRecords ==
    {[enabled |-> TRUE, preset |-> "full", morning_time |-> <<8, 30>>,
      night_time |-> <<22, 0>>, sent_keys |-> NoLedger],
     [enabled |-> FALSE, preset |-> "short", morning_time |-> <<7, 0>>,
      night_time |-> <<21, 0>>, sent_keys |-> [ds \in {IsoFormat(0)} |-> <<KeyMorning>>]],
     [enabled |-> FALSE, preset |-> "minimal", sent_keys |-> NoLedger],
     [x \in {} |-> TRUE],
     NotAnObject}

LoadFiles ==
    {[keys |-> LoadUids, val |-> v] : v \in [{"1", "2", "3"} -> LoadRecords]}

InitLoad ==
    /\ disk \in LoadFiles
    /\ users = EmptyDict
    /\ pc = "boot"
    /\ schedule = [d \in {} |-> <<>>]
    /\ timefile = <<>>
    /\ answer = NoAnswer
    /\ now = 0
    /\ queue = <<>>
    /\ leads = <<>>
    /\ preset = DEFAULT_PRESET
    /\ send = NoSend
    /\ resume = "none"
    /\ sendLog = <<>>
    /\ lost = <<>>
    /\ failed = <<>>
    /\ marked = {}
    /\ repeated = FALSE
    /\ nevents = 0

\* line 209: users = load_users()
Load ==
    /\ pc = "boot"
    /\ users' = load_users(disk)
    /\ pc' = "start"
    /\ UNCHANGED <<disk, schedule, timefile, answer, now, queue, leads, preset, send,
                   resume, sendLog, lost, failed, marked, repeated, nevents>>

NextLoad == Load

SpecLoad == InitLoad /\ [][NextLoad]_vars

----------------------------------------------------------------------------
(* Persist runs: the tick loop with every send succeeding and a save_users
   in mark_sent that may raise; no handler, no restart *)

NextPersist ==
    \/ \E t \in Instants : TickBegin(t)
    \/ Tick
    \/ MarkSentSaveFails

SpecPersist == Init /\ [][NextPersist]_vars

----------------------------------------------------------------------------
(* Loop runs: notification_loop alone, every tick free to be cut short by a
   send that raises, a save_users that raises or a read of time.txt that
   raises. The event loop keeps running the task: a sleep ends, a send returns
   or raises, so the loop does not stay for ever at a step it can take. *)

NextLoop ==
    \/ \E t \in Instants : TickBegin(t)
    \/ \E t \in Instants : TickBeginFails(t)
    \/ Tick
    \/ SendFail
    \/ MarkSentSaveFails

SpecLoop == Init /\ [][NextLoop]_vars /\ WF_vars(NextLoop)

----------------------------------------------------------------------------
(* Dense runs: consecutive ticks less than a minute apart, every send
   succeeds, no handler runs; the table has a row for the day after the epoch
   whose saharlik time is less than 5 minutes after midnight *)

DenseFile == <<Row(IsoFormat(1), <<0, 3>>, <<0, 10>>)>>

DenseTable == [d \in {1} |-> <<<<0, 3>>, <<0, 10>>>>]

DenseUid == "1"

DenseStart == combine(0, <<23, 57>>)

DenseEnd == DenseStart + DenseMinutes * SecondsPerMinute

\* the time from one tick's now to the next: the sleep of TICK_SECONDS alone,
\* or with the tick's own work up to a second short of a minute
DenseSteps == {TICK_SECONDS, SecondsPerMinute - 1}

InitDense ==
    /\ disk = save_users(DictPut(EmptyDict, DenseUid, [UserSettings EXCEPT !.preset = "minimal"]))
    /\ users = load_users(disk)
    /\ schedule = DenseTable
    /\ timefile = DenseFile
    /\ answer = NoAnswer
    /\ now = 0
    /\ pc = "start"
    /\ queue = <<>>
    /\ leads = <<>>
    /\ preset = DEFAULT_PRESET
    /\ send = NoSend
    /\ resume = "none"
    /\ sendLog = <<>>
    /\ lost = <<>>
    /\ failed = <<>>
    /\ marked = {}
    /\ repeated = FALSE
    /\ nevents = 0

DenseTick ==
    \E step \in DenseSteps :
       LET t == IF pc = "start" THEN DenseStart ELSE now + step
       IN t <= DenseEnd /\ TickBegin(t)

NextDense ==
    \/ DenseTick
    \/ Tick

SpecDense == InitDense /\ [][NextDense]_vars

----------------------------------------------------------------------------
(* Properties of the bot *)

SeqToSet(q) == {q[i] : i \in 1..Len(q)}

\* key is in the user's ledger of the day, read from the dict itself
KeyInLedger(uid, day, key) ==
    LET sk == users.val[uid].sent_keys
        ds == IsoFormat(day)
    IN ds \in DOMAIN sk /\ \E i \in 1..Len(sk[ds]) : sk[ds][i] = key

DigestKeys == {KeyMorning, KeyNight}

ReminderKinds == {"iftar", "iftar-now", "saharlik"}

SameMinute(t1, t2) == t1 \div SecondsPerMinute = t2 \div SecondsPerMinute

\* the event time of day of a reminder key on a day with a row, and its trigger
EventOf(day, key) ==
    IF key[1] = "saharlik" THEN combine(day, schedule[day][1])
    ELSE combine(day, schedule[day][2])

Due(t, trigger) == trigger <= t /\ t < trigger + 60

\* the keys whose rule is due for the user at the tick's now, by the user's
\* settings and ledger as they are
DueKeys(uid) ==
    LET u     == users.val[uid]
        lists == IF u.preset \in PresetNames THEN PRESETS[u.preset] ELSE PRESETS[DEFAULT_PRESET]
        cand  == {KeyMorning : x \in {1} \cap (IF StrfHM(now) = u.morning_time THEN {1} ELSE {})}
                 \cup {KeyNight : x \in {1} \cap (IF StrfHM(now) = u.night_time THEN {1} ELSE {})}
                 \cup (IF Today \in DOMAIN schedule
                       THEN {k \in {<<"iftar", m>> : m \in SeqToSet(lists.iftar)}
                                   \cup {KeyIftarNow}
                                   \cup {<<"saharlik", m>> : m \in SeqToSet(lists.saharlik)} :
                                Due(now, EventOf(Today, k) - 60 * k[2])}
                       ELSE {})
    IN {k \in cand : ~ KeyInLedger(uid, Today, k)}

\* what is due beside the send in flight: the other keys of the current user
\* and the keys of the enabled users after it
OtherDue ==
    {<<Cur, k>> : k \in DueKeys(Cur) \ {send.key}}
    \cup UNION {{<<u, k>> : k \in DueKeys(u)} :
                   u \in {v \in SeqToSet(Tail(queue)) : users.val[v].enabled}}

SendStarts == pc # "send" /\ pc' = "send"

SendRaises == pc = "send" /\ pc' = "sleep"

InFlight == <<send.uid, Today, send.key>>

\* C1 as stated: for every user, day and key, over ticks, settings changes and
\* restarts, at most one send of the key to the user completes for the day.
C1AtMostOneSend == \A x \in DOMAIN sendLog : sendLog[x] <= 1

\* C1, amended: the completed sends of a key to a user for a day are at most
\* one more than the restarts that hit a completed send of it before its
\* mark_sent wrote the key; without such a restart, at most one.
C1AtMostOneSendPerLostMark == \A x \in DOMAIN sendLog : sendLog[x] <= 1 + Count(lost, x)

\* a key sent twice for one day, the second time after a restart lost its mark
C1Witness == \E x \in DOMAIN sendLog : sendLog[x] = 2 /\ Count(lost, x) = 1

\* C2: a send that raises ends the tick only when nothing else is due in it:
\* every other due rule of the user and of the other enabled users is still run.
C2FailureKeepsTick == [][SendRaises => OtherDue = {}]_vars

\* C3, first and second part: a send that raises leaves the store as it is, the
\* key stays out of today's ledger; and a rule evaluated inside the minute of an
\* earlier failure of its key, the key still missing, starts the send again.
C3FailureNotMarked ==
    SendRaises => /\ users' = users
                  /\ disk' = disk
                  /\ ~ KeyInLedger(send.uid, Today, send.key)

C3Retried ==
    /\ \A at \in {"iftar", "saharlik"} :
          (/\ pc = at
           /\ leads # <<>>
           /\ <<Cur, Today, <<at, Head(leads)>>>> \in DOMAIN failed
           /\ SameMinute(now, failed[<<Cur, Today, <<at, Head(leads)>>>>])
           /\ ~ KeyInLedger(Cur, Today, <<at, Head(leads)>>))
          => pc' = "send" /\ send' = [uid |-> Cur, key |-> <<at, Head(leads)>>]
    /\ (/\ pc = "iftar_now"
        /\ <<Cur, Today, KeyIftarNow>> \in DOMAIN failed
        /\ SameMinute(now, failed[<<Cur, Today, KeyIftarNow>>])
        /\ ~ KeyInLedger(Cur, Today, KeyIftarNow))
       => pc' = "send" /\ send' = [uid |-> Cur, key |-> KeyIftarNow]
    /\ (/\ pc = "morning"
        /\ <<Cur, Today, KeyMorning>> \in DOMAIN failed
        /\ StrfHM(now) = users.val[Cur].morning_time
        /\ ~ KeyInLedger(Cur, Today, KeyMorning))
       => pc' = "send" /\ send' = [uid |-> Cur, key |-> KeyMorning]
    /\ (/\ pc = "night"
        /\ <<Cur, Today, KeyNight>> \in DOMAIN failed
        /\ StrfHM(now) = users.val[Cur].night_time
        /\ ~ KeyInLedger(Cur, Today, KeyNight))
       => pc' = "send" /\ send' = [uid |-> Cur, key |-> KeyNight]

\* C3, third part as stated: a key whose send failed is sent that day only
\* inside the minute of the failure.
C3OnlyInFailedWindow ==
    (pc \in {"send", "mark"} /\ InFlight \in DOMAIN failed) => SameMinute(now, failed[InFlight])

\* C3, third part amended: outside the minute of the failure a reminder key is
\* never sent that day, and a digest key only at the digest time the user has
\* set since, another minute than the one of the failure.
C3LaterOnlyMovedDigest ==
    (SendStarts /\ <<send'.uid, Today, send'.key>> \in DOMAIN failed
                /\ ~ SameMinute(now, failed[<<send'.uid, Today, send'.key>>]))
    => /\ send'.key \in DigestKeys
       /\ StrfHM(now) = (IF send'.key = KeyMorning THEN users.val[send'.uid].morning_time
                         ELSE users.val[send'.uid].night_time)
       /\ StrfHM(now) # StrfHM(failed[<<send'.uid, Today, send'.key>>])

C4NoSendWhileDisabled == [][SendStarts => users.val[send'.uid].enabled]_vars

\* C5: on a day without an exact row no iftar-<m>, iftar-now or saharlik-<m>
\* send is started or completed, whatever the nearest date holds; a digest
\* whose time matches and whose key is missing is still sent.
C5NoReminderWithoutRow ==
    /\ []((pc \in {"send", "mark"} /\ send.key[1] \in ReminderKinds) => Today \in DOMAIN schedule)
    /\ [](\A x \in DOMAIN sendLog : x[3][1] \in ReminderKinds => x[2] \in DOMAIN schedule)
    /\ [][/\ (pc = "morning" /\ Today \notin DOMAIN schedule
                /\ StrfHM(now) = users.val[Cur].morning_time
                /\ ~ KeyInLedger(Cur, Today, KeyMorning))
             => pc' = "send" /\ send' = [uid |-> Cur, key |-> KeyMorning]
          /\ (pc = "night" /\ Today \notin DOMAIN schedule
                /\ StrfHM(now) = users.val[Cur].night_time
                /\ ~ KeyInLedger(Cur, Today, KeyNight))
             => pc' = "send" /\ send' = [uid |-> Cur, key |-> KeyNight]]_vars

\* the morning digest was sent on a day that has no row but has a nearest date
\* whose iftar-10 trigger minute is the minute of the tick
C5Witness ==
    /\ pc = "sleep"
    /\ Today \notin DOMAIN schedule
    /\ find_nearest_day_times(schedule, Today) # None
    /\ StrfHM(now) = StrfHM(combine(0, find_nearest_day_times(schedule, Today)[2][2]) - 600)
    /\ \E u \in DOMAIN users.val : Count(sendLog, <<u, Today, KeyMorning>>) = 1

\* C6: when the loop evaluates the rule of lead m (user enabled at the top of
\* its turn, exact row, m in the preset looked up), it starts the send of
\* "<event>-m" if and only if trigger <= now < trigger + 1 minute and the key
\* is not in today's ledger; every send of a lead key in flight is in its window.
C6LeadSentInWindowOnce ==
    /\ [][\A at \in {"iftar", "saharlik"} :
             (pc = at /\ leads # <<>>)
             => LET key     == <<at, Head(leads)>>
                    trigger == EventOf(Today, key) - 60 * Head(leads)
                IN (pc' = "send" /\ send' = [uid |-> Cur, key |-> key])
                   <=> (/\ trigger <= now
                        /\ now < trigger + 60
                        /\ ~ KeyInLedger(Cur, Today, key))]_vars
    /\ []((pc \in {"send", "mark"} /\ send.key[1] \in {"iftar", "saharlik"})
          => /\ Today \in DOMAIN schedule
             /\ Due(now, EventOf(Today, send.key) - 60 * send.key[2])
             /\ send.key[2] \in SeqToSet(PRESETS[preset][send.key[1]]))

\* the rule of a lead is evaluated inside its window with the key already in
\* the ledger: an earlier tick of the window sent it, this one does not
C6Witness ==
    /\ pc \in {"iftar", "saharlik"}
    /\ leads # <<>>
    /\ Due(now, EventOf(Today, <<pc, Head(leads)>>) - 60 * Head(leads))
    /\ KeyInLedger(Cur, Today, <<pc, Head(leads)>>)
    /\ Count(sendLog, <<Cur, Today, <<pc, Head(leads)>>>>) = 1

----------------------------------------------------------------------------
(* Properties of the ledger *)

\* the ledger after mark_sent(LedgerUid, day, key) on the store as it is
LedgerAfter(us, file, day, key) == mark_sent(us, file, LedgerUid, day, key).users.val[LedgerUid].sent_keys

\* C8: after any sequence of mark_sent calls from an empty ledger the ledger
\* holds at most 10 days, and they are the 10 greatest by calendar order of
\* the days ever marked.
C8LedgerKeepsGreatestDays ==
    /\ Cardinality(DOMAIN Ledger) <= 10
    /\ DOMAIN Ledger = {IsoFormat(d) : d \in TopDays(MarkedDays)}

\* 12 distinct days were marked, the last of them not the greatest, and 10 remain
C8Witness ==
    /\ Cardinality(MarkedDays) = 12
    /\ Cardinality(DOMAIN Ledger) = 10
    /\ repeated = FALSE
    /\ \E d \in MarkedDays : IsoFormat(d) \notin DOMAIN Ledger /\ <<d, KeyNight>> \in marked

\* C9 as stated: was_sent(u, d, k) is true after mark_sent(u, d, k), whatever
\* the ledger was before, and stays true after any further mark_sent calls.
C9SentAfterMark ==
    \A a \in marked : was_sent(users, disk, LedgerUid, a[1], a[2])

\* C9, amended: after mark_sent(u, d, k), was_sent(u, d, k) is true exactly
\* while d is one of the 10 greatest days ever marked for u: false at once when
\* the ledger already held 10 later days, false from the call that brings the
\* tenth later day; and it is false for a key that was never marked.
C9SentWhileDayKept ==
    /\ \A a \in marked :
          was_sent(users, disk, LedgerUid, a[1], a[2]) <=> a[1] \in TopDays(MarkedDays)
    /\ \A a \in LedgerArgs \ marked : ~ was_sent(users, disk, LedgerUid, a[1], a[2])

\* more than 10 days were marked: a marked key of a kept day is still reported
\* with both of its keys, a marked key of an evicted day is not
C9Witness ==
    /\ Cardinality(MarkedDays) > KEEP_DAYS
    /\ \E a \in marked : /\ a[2] = KeyMorning
                         /\ <<a[1], KeyNight>> \in marked
                         /\ was_sent(users, disk, LedgerUid, a[1], KeyMorning)
                         /\ was_sent(users, disk, LedgerUid, a[1], KeyNight)
    /\ \E b \in marked : ~ was_sent(users, disk, LedgerUid, b[1], b[2])

\* C10: for every day and key, the ledger after two consecutive mark_sent calls
\* is the ledger after the first; marking a key that is present leaves the
\* ledger as it is, no duplicate, no day evicted.
C10MarkSentIdempotent ==
    /\ \A a \in LedgerArgs :
          LET r == mark_sent(users, disk, LedgerUid, a[1], a[2])
          IN LedgerAfter(r.users, r.file, a[1], a[2]) = r.users.val[LedgerUid].sent_keys
    /\ \A a \in LedgerArgs :
          KeyInLedger(LedgerUid, a[1], a[2]) => LedgerAfter(users, disk, a[1], a[2]) = Ledger
    /\ \A ds \in DOMAIN Ledger : \A i, j \in 1..Len(Ledger[ds]) :
          Ledger[ds][i] = Ledger[ds][j] => i = j

\* the last call marked a key that had been marked before, on a full ledger
C10Witness ==
    /\ repeated
    /\ Cardinality(DOMAIN Ledger) = KEEP_DAYS
    /\ \E ds \in DOMAIN Ledger : Len(Ledger[ds]) = 2

----------------------------------------------------------------------------
(* Properties of the dense runs *)

\* the reminder keys of a user on a day with a row: the leads of the user's
\* preset for both events, and iftar-now
TriggerKeys(uid) ==
    LET u     == users.val[uid]
        lists == IF u.preset \in PresetNames THEN PRESETS[u.preset] ELSE PRESETS[DEFAULT_PRESET]
    IN {<<"iftar", m>> : m \in SeqToSet(lists.iftar)}
       \cup {KeyIftarNow}
       \cup {<<"saharlik", m>> : m \in SeqToSet(lists.saharlik)}

\* C7: with ticks less than a minute apart, every send succeeding and the user
\* enabled throughout, each trigger of a day with a row is sent at most once,
\* and exactly once by the time the loop sleeps a minute or more after the event.
C7ExactlyOneSendPerTrigger ==
    \A uid \in DOMAIN users.val : \A d \in DOMAIN schedule : \A k \in TriggerKeys(uid) :
        /\ Count(sendLog, <<uid, d, k>>) <= 1
        /\ (pc = "sleep" /\ now >= EventOf(d, k) + 60) => Count(sendLog, <<uid, d, k>>) = 1

----------------------------------------------------------------------------
(* Properties of the resolve runs *)

Asked == answer # NoAnswer

\* the positions of the lines of time.txt that are rows of the date
RowsOf(d) ==
    {i \in 1..Len(timefile) :
        /\ timefile[i].kind = "row"
        /\ timefile[i].day = IsoFormat(d)
        /\ timefile[i].sah[1] \in 0..23 /\ timefile[i].sah[2] \in 0..59
        /\ timefile[i].ift[1] \in 0..23 /\ timefile[i].ift[2] \in 0..59}

LastRowOf(d) == CHOOSE i \in RowsOf(d) : \A j \in RowsOf(d) : j <= i

\* the dates that have a row
TableDays == {d \in ModelDays : RowsOf(d) # {}}

Distance(a, b) == IF a < b THEN b - a ELSE a - b

\* C11: for a date with a row, resolve returns the date itself, the times of
\* the last row of that date, and is_exact = TRUE.
C11ExactRowResolved ==
    (Asked /\ answer.target \in TableDays)
    => answer.result = <<answer.target,
                         timefile[LastRowOf(answer.target)].sah,
                         timefile[LastRowOf(answer.target)].ift,
                         TRUE>>

\* a date with two rows of different times was resolved, other dates have rows too
C11Witness ==
    /\ Asked
    /\ Cardinality(RowsOf(answer.target)) = 2
    /\ \E i, j \in RowsOf(answer.target) : timefile[i].sah # timefile[j].sah
    /\ Cardinality(TableDays) = 2

\* C12: for a date without a row and a table that is not empty, resolve returns
\* is_exact = FALSE with a date of the table at the least distance in days and
\* that date's times; of two dates at that distance, the later one.
C12NearestLaterOnTie ==
    (Asked /\ answer.target \notin TableDays /\ TableDays # {})
    => /\ answer.result # None
       /\ answer.result[4] = FALSE
       /\ answer.result[1] \in TableDays
       /\ \A e \in TableDays :
             /\ Distance(answer.result[1], answer.target) <= Distance(e, answer.target)
             /\ Distance(answer.result[1], answer.target) = Distance(e, answer.target)
                => e <= answer.result[1]
       /\ answer.result[2] = timefile[LastRowOf(answer.result[1])].sah
       /\ answer.result[3] = timefile[LastRowOf(answer.result[1])].ift

\* rows on 03-03 and 03-07 only, 03-05 asked: 03-07 is the answer
C12Witness ==
    /\ Asked
    /\ TableDays = {8, 12}
    /\ answer.target = 10
    /\ answer.result[1] = 12
    /\ answer.result[4] = FALSE

\* C13: resolve returns nothing exactly when time.txt has no row at all.
C13NothingIffEmptyTable ==
    Asked => (answer.result = None <=> TableDays = {})

\* nothing was returned for a time.txt whose lines are all skipped
C13Witness ==
    /\ Asked
    /\ answer.result = None
    /\ Len(timefile) = 3
    /\ \E i \in 1..Len(timefile) : timefile[i].kind = "row"

----------------------------------------------------------------------------
(* Properties of the repair runs *)

Known(us, uid) == us.val[uid].preset \in {"full", "short", "minimal"}

\* C14: a user loaded with an unknown preset name is treated as the default
\* preset. get_user of the user leaves a known preset in memory, and a known
\* preset stays known until users.json is loaded again; the tick looks up the
\* default lists for an unknown name and its lead rules repair the name; a
\* write of users.json persists the preset that is in memory.
C14UnknownPresetRepaired ==
    /\ [](\A uid \in DOMAIN users.val : Known(get_user(users, disk, uid).users, uid))
    /\ []((pc \in {"iftar", "iftar_now", "saharlik"})
            => preset \in {"full", "short", "minimal"})
    /\ [][/\ \A uid \in DOMAIN users.val :
                (Known(users, uid) /\ ~ Known(users', uid))
                => (users' = load_users(disk) /\ ~ Known(disk, uid))
          /\ (pc = "gate" /\ pc' = "iftar" /\ ~ Known(users, Cur))
             => (preset' = "full" /\ leads' = <<30, 15, 10, 5, 1>>)
          /\ (pc \in {"iftar", "saharlik"} /\ leads # <<>>) => Known(users', Cur)
          /\ disk' # disk
             => \A uid \in DOMAIN users'.val :
                   disk'.val[uid].preset = users'.val[uid].preset]_vars

\* without any handler call, failed send or restart, the tick has sent with the
\* default lists to the user loaded with the unknown name, and the repaired
\* name is in memory and in users.json
C14Witness ==
    /\ nevents = 0
    /\ \E uid \in DOMAIN users.val :
          /\ users.val[uid].preset = DEFAULT_PRESET
          /\ disk.val[uid].preset = DEFAULT_PRESET
          /\ Count(sendLog, <<uid, Today, <<"iftar", 10>>>>) = 1

----------------------------------------------------------------------------
(* Properties of the reject runs *)

\* a handler call: in the reject runs, a settings change with an invalid value
HandlerStep == nevents' = nevents + 1

\* the settings of a new user
Defaults ==
    [enabled |-> TRUE, preset |-> "full", morning_time |-> <<8, 30>>,
     night_time |-> <<22, 0>>, sent_keys |-> [d \in {} |-> <<>>]]

\* C15 as stated: a settings change with an invalid value leaves the in-memory
\* settings and users.json as they are.
C15RejectedChangesNothing == [][HandlerStep => (users' = users /\ disk' = disk)]_vars

\* C15, amended: a settings change with an invalid value stores nothing of the
\* value; what changes is what get_user does for the caller: a caller not in
\* the map is added with the defaults and users.json is written, a caller
\* whose preset name is unknown gets the default name in memory, not on disk.
C15RejectedChangesOnlyByGetUser ==
    [][HandlerStep =>
         \E uid \in Uids :
            /\ \A u \in (DOMAIN users.val) \ {uid} : users'.val[u] = users.val[u]
            /\ DOMAIN users'.val = (DOMAIN users.val) \cup {uid}
            /\ IF uid \in DOMAIN users.val
               THEN /\ users'.keys = users.keys
                    /\ users'.val[uid] =
                          [users.val[uid] EXCEPT !.preset =
                              IF @ \in {"full", "short", "minimal"} THEN @ ELSE "full"]
                    /\ disk' = disk
               ELSE /\ users'.keys = Append(users.keys, uid)
                    /\ users'.val[uid] = Defaults
                    /\ disk'.keys = users'.keys
                    /\ disk'.val = users'.val]_vars

\* after two rejected changes, one by a caller that was not in the map, the
\* caller loaded with the defaults still has them in memory and on disk
C15Witness ==
    /\ nevents = 2
    /\ DOMAIN users.val = {"1", "2"}
    /\ users.val["1"] = Defaults
    /\ disk.val["1"] = Defaults

----------------------------------------------------------------------------
(* Properties of the load runs *)

SettingsFields == {"enabled", "preset", "morning_time", "night_time", "sent_keys"}

\* C16: after loading, every record of users.json that is an object with all
\* its fields is in the user map with the settings and the ledger stored for
\* it, whatever the other records are.
C16WellFormedRecordsLoaded ==
    pc = "start"
    => \A uid \in DOMAIN disk.val :
          DOMAIN disk.val[uid] = SettingsFields
          => (uid \in DOMAIN users.val /\ users.val[uid] = disk.val[uid])

----------------------------------------------------------------------------
(* Properties of the persist runs *)

\* key is in the ledger of the day in a users.json
KeyOnDisk(uid, day, key) ==
    /\ uid \in DOMAIN disk.val
    /\ IsoFormat(day) \in DOMAIN disk.val[uid].sent_keys
    /\ \E i \in 1..Len(disk.val[uid].sent_keys[IsoFormat(day)]) :
          disk.val[uid].sent_keys[IsoFormat(day)][i] = key

\* C17: when save_users raises in the mark_sent that follows a send, the loop
\* goes on to its sleep, the key is in the ledger in memory, and no later tick
\* sends the key again: every key is sent at most once.
C17UnsavedKeyStillDedups ==
    /\ [][(pc = "mark" /\ pc' = "sleep")
          => LET sk == users'.val[send.uid].sent_keys
                 ds == IsoFormat(Today)
             IN ds \in DOMAIN sk /\ \E i \in 1..Len(sk[ds]) : sk[ds][i] = send.key]_vars
    /\ [](\A x \in DOMAIN sendLog : sendLog[x] <= 1)

\* a later tick of the same minute evaluates the morning rule: the key is in
\* memory and not in users.json, and it was sent once
C17Witness ==
    /\ pc = "morning"
    /\ StrfHM(now) = users.val[Cur].morning_time
    /\ KeyInLedger(Cur, Today, KeyMorning)
    /\ ~ KeyOnDisk(Cur, Today, KeyMorning)
    /\ Count(sendLog, <<Cur, Today, KeyMorning>>) = 1

----------------------------------------------------------------------------
(* Properties of the store under interleaving *)

\* the settings fields of a user record
Settings(r) == <<r.enabled, r.preset, r.morning_time, r.night_time>>

\* users.json holds the user map as it is in memory
WrittenThrough(us, file) == file.keys = us.keys /\ file.val = us.val

\* C18: no update is lost when a handler runs while the tick awaits a send.
\* The handler's step keeps every ledger and writes its change with the whole
\* map; every step of the tick keeps the settings of every user, and its
\* mark_sent adds the key and writes the whole map; so memory and users.json
\* always agree and hold both.
C18NoLostUpdate ==
    /\ [][/\ (pc = "send" /\ pc' = "send" /\ nevents' = nevents + 1)
             => /\ \A u \in DOMAIN users.val :
                      users'.val[u].sent_keys = users.val[u].sent_keys
                /\ WrittenThrough(users', disk')
          /\ (nevents' = nevents)
             => \A u \in DOMAIN users.val : Settings(users'.val[u]) = Settings(users.val[u])
          /\ (pc = "mark" /\ nevents' = nevents)
             => /\ LET sk == users'.val[send.uid].sent_keys
                       ds == IsoFormat(Today)
                   IN ds \in DOMAIN sk /\ \E i \in 1..Len(sk[ds]) : sk[ds][i] = send.key
                /\ WrittenThrough(users', disk')]_vars
    /\ [](WrittenThrough(users, disk))

\* the user was enabled when its turn began and is disabled when the morning
\* key has been marked: the toggle ran during the await of the send, and the
\* flag and the key are both in memory and in users.json
C18Witness ==
    /\ pc = "night"
    /\ ~ users.val[Cur].enabled
    /\ ~ disk.val[Cur].enabled
    /\ KeyInLedger(Cur, Today, KeyMorning)
    /\ KeyOnDisk(Cur, Today, KeyMorning)

\* the user map with every unknown preset name read as the default one
Repaired(us) ==
    [keys |-> us.keys,
     val  |-> [u \in DOMAIN us.val |->
                  [us.val[u] EXCEPT !.preset =
                      IF @ \in {"full", "short", "minimal"} THEN @ ELSE "full"]]]

\* C19: write-through. A step that creates a user, flips enabled, stores a
\* preset or a digest time, or marks a key (any step that changes the user map
\* by more than the repair of a preset name, or that writes users.json) ends
\* with users.json holding the whole user map as it is in memory.
C19WriteThrough ==
    [][(Repaired(users') # Repaired(users) \/ disk' # disk)
       => WrittenThrough(users', disk')]_vars

\* a user created by its first toggle, a key marked for the user loaded with
\* the unknown preset name: memory and users.json hold the same map
C19Witness ==
    /\ DOMAIN users.val = {"1", "2"}
    /\ ~ users.val["2"].enabled
    /\ users.val["1"].sent_keys # NoLedger
    /\ WrittenThrough(users, disk)

----------------------------------------------------------------------------
(* Properties of the order of send and mark *)

\* every <<uid, day text, key>> held by the ledgers of a user map
LedgerKeys(us) ==
    UNION {UNION {{<<u, ds, us.val[u].sent_keys[ds][i]>> :
                      i \in 1..Len(us.val[u].sent_keys[ds])} :
                  ds \in DOMAIN us.val[u].sent_keys} :
           u \in DOMAIN us.val}

\* C20: a dedup key is written only after a successful send. The loop comes to
\* the mark_sent call only by the return of a send of that key to that user in
\* the same tick; a ledger gains a key only in that call, under the date of the
\* tick; so every key in a ledger has a completed send of it on its day.
C20KeyOnlyAfterSend ==
    /\ [][/\ (pc' = "mark" /\ pc # "mark")
             => /\ pc = "send"
                /\ send' = send
                /\ now' = now
                /\ sendLog' = Inc(sendLog, <<send.uid, Today, send.key>>)
          /\ \A x \in LedgerKeys(users') \ LedgerKeys(users) :
                /\ pc = "mark"
                /\ x = <<send.uid, IsoFormat(Today), send.key>>]_vars
    /\ [](\A x \in LedgerKeys(users) :
             \E d \in ModelDays : /\ x[2] = IsoFormat(d)
                                  /\ Count(sendLog, <<x[1], d, x[3]>>) >= 1)

\* a send of the morning digest failed and left no key; the retry returned and
\* its key is in the ledger
C20Witness ==
    /\ pc = "night"
    /\ <<Cur, Today, KeyMorning>> \in DOMAIN failed
    /\ Count(sendLog, <<Cur, Today, KeyMorning>>) = 1
    /\ <<Cur, IsoFormat(Today), KeyMorning>> \in LedgerKeys(users)

----------------------------------------------------------------------------
(* Properties of the loop *)

\* the clock has a reading a tick after t can take
LaterReading(t) == \E t2 \in Instants : t2 >= t + TICK_SECONDS

\* C21: the tick loop never stops. A tick that has begun comes to the sleep,
\* whether it ran to its end or a send, a save or the read of the table raised;
\* the clock is read only from the start or the sleep, and after a sleep not
\* before the fixed interval has passed; and a sleeping loop begins another
\* tick as long as the clock has a later reading.
C21TickLoopNeverStops ==
    /\ [](pc \notin {"start", "sleep"} => <>(pc = "sleep"))
    /\ [][now' # now => /\ pc \in {"start", "sleep"}
                        /\ pc = "sleep" => now' >= now + TICK_SECONDS]_vars
    /\ \A t \in Instants :
          [](pc \in {"start", "sleep"} /\ now = t /\ LaterReading(t) => <>(now > t))

\* earlier ticks were cut short by a send that raised and by a save that
\* raised (the key is in memory and not in users.json); the tick of day 1 at
\* the user's morning time left no key and no failed send, so it was cut short
\* at the read of the table; the loop sleeps
C21Witness ==
    /\ pc = "sleep"
    /\ Today = 1
    /\ users.val["1"].enabled
    /\ StrfHM(now) = users.val["1"].morning_time
    /\ <<"1", IsoFormat(Today), KeyMorning>> \notin LedgerKeys(users)
    /\ failed # <<>>
    /\ \A x \in DOMAIN failed : failed[x] < now
    /\ \E x \in LedgerKeys(users) : x \notin LedgerKeys(disk)

====
